---- MODULE Spec2Model ----
(***************************************************************************)
(* Model of src/audio_player.py: class AudioManager (device resolution at  *)
(* construction, play_audio with its two playback modes, the blocking wait *)
(* and the delete-after-playback cleanup) together with the process-wide   *)
(* pygame mixer it drives.                                                 *)
(***************************************************************************)
EXTENDS Integers, Sequences, FiniteSets, TLC

VARIABLES
    devices,        \* output device names as sdl2_audio enumerates them now
    sdlAvailable,   \* SDL2_AUDIO_AVAILABLE
    device_name,    \* self.device_name of each engine
    target_device,  \* self.target_device of each engine
    enumerated,     \* __init__ got (and printed) the list of output devices
    printed,        \* what list_devices printed last
    pc,             \* position of each engine's caller
    req,            \* arguments of the play_audio call in progress
    trace,          \* library calls made so far by the call in progress
    mixerInit,      \* pygame.mixer is initialized
    preDevice,      \* devicename preset by pygame.mixer.pre_init
    openDevice,     \* devicename the mixer was opened with
    music,          \* file loaded into pygame.mixer.music and who loaded it
    musicPlaying,   \* the music stream is playing
    sounds,         \* number of active Sound channels started by each engine
    exists,         \* the audio files present on disk
    wavHandle,      \* file each engine's sf.SoundFile handle is open on
    file_length,    \* file_length of the call in progress, a fraction in seconds
    killed          \* playbacks cut off by the latest music.load or mixer.quit

vars == <<devices, sdlAvailable, device_name, target_device, enumerated, printed, pc, req,
          trace, mixerInit, preDevice, openDevice, music, musicPlaying,
          sounds, exists, wavHandle, file_length, killed>>

engineVars == <<device_name, target_device, enumerated>>
mixerVars == <<mixerInit, preDevice, openDevice, music, musicPlaying, sounds>>

\* None, a value no str equals
None == <<"None">>
\* no engine
Nobody == "nobody"
Engines == {"e1", "e2"}

\* ---------------------------------------------------------------- bounds
MaxDevices == 2
MaxChannels == 1

\* ---------------------------------------------------------------- strings
\* A str is a sequence of one-character strings.
UpperLetters == <<"A","B","C","D","E","F","G","H","I","J","K","L","M",
                  "N","O","P","Q","R","S","T","U","V","W","X","Y","Z">>
LowerLetters == <<"a","b","c","d","e","f","g","h","i","j","k","l","m",
                  "n","o","p","q","r","s","t","u","v","w","x","y","z">>

LowerChar(c) ==
    IF \E i \in 1..Len(UpperLetters) : UpperLetters[i] = c
    THEN LowerLetters[CHOOSE i \in 1..Len(UpperLetters) : UpperLetters[i] = c]
    ELSE c

\* str.lower()
Lower(s) == [i \in 1..Len(s) |-> LowerChar(s[i])]

\* sub in s
Contains(sub, s) ==
    \E i \in 0..(Len(s) - Len(sub)) : SubSeq(s, i + 1, i + Len(sub)) = sub

\* truthiness of an optional str: None and "" are falsy
Truthy(s) == s # None /\ s # <<>>

Range(s) == {s[i] : i \in 1..Len(s)}

\* ---------------------------------------------------------------- devices
\* the loop of __init__: first device whose lowered name contains the lowered
\* requested name
RECURSIVE FindFrom(_, _, _)
FindFrom(devs, name, i) ==
    IF i > Len(devs) THEN None
    ELSE IF Contains(Lower(name), Lower(devs[i])) THEN devs[i]
    ELSE FindFrom(devs, name, i + 1)

\* mutant: the comparison without .lower()
RECURSIVE FindFromExact(_, _, _)
FindFromExact(devs, name, i) ==
    IF i > Len(devs) THEN None
    ELSE IF Contains(name, devs[i]) THEN devs[i]
    ELSE FindFromExact(devs, name, i + 1)

FindDeviceExact(devs, name) == FindFromExact(devs, name, 1)

FindDevice(devs, name) == FindFrom(devs, name, 1)

\* mutant: the guard written with `is not None`
ShouldEnumerateNotNone(name, avail) == name # None /\ avail

\* the guard of the enumeration block
ShouldEnumerate(name, avail) == Truthy(name) /\ avail

\* ---------------------------------------------------------------- paths
\* os.path.splitext(p)[1]: from the last dot of the last path component,
\* leading dots of the component not counted
LastSep(p) ==
    IF \E i \in 1..Len(p) : p[i] = "/"
    THEN CHOOSE i \in 1..Len(p) : p[i] = "/" /\ \A j \in (i+1)..Len(p) : p[j] # "/"
    ELSE 0

SplitExt(p) ==
    LET base == LastSep(p)
        dots == {i \in (base+1)..Len(p) : p[i] = "."}
    IN IF dots = {} THEN <<>>
       ELSE LET d == CHOOSE i \in dots : \A j \in dots : j <= i
            IN IF \A k \in (base+1)..d : p[k] = "." THEN <<>>
               ELSE SubSeq(p, d, Len(p))

ExtWav == <<".","w","a","v">>
ExtMp3 == <<".","m","p","3">>

\* mutant: the extension compared without .lower()
FormatOfExact(p) ==
    LET ext == SplitExt(p)
    IN IF ext = ExtWav THEN "wav"
       ELSE IF ext = ExtMp3 THEN "mp3"
       ELSE "unknown"

\* which branch of the extension dispatch a path takes
FormatOf(p) ==
    LET ext == SplitExt(p)
    IN IF Lower(ext) = ExtWav THEN "wav"
       ELSE IF Lower(ext) = ExtMp3 THEN "mp3"
       ELSE "unknown"

\* ---------------------------------------------------------------- durations
\* what the two metadata readers find in a file: wav_file.frames,
\* wav_file.samplerate and mp3_file.info.length (a fraction of seconds); the
\* values depend on the file only
Frames(p) == Len(p) + 4
SampleRate(p) == Len(p)
InfoLength(p) == <<Len(p) + 2, 3>>

RECURSIVE Gcd(_, _)
Gcd(a, b) == IF b = 0 THEN a ELSE Gcd(b, a % b)

\* a / b, as the fraction in lowest terms
Divide(a, b) == <<a \div Gcd(a, b), b \div Gcd(a, b)>>

\* lines 95 and 99
LengthOf(fmt, p) ==
    IF fmt = "wav" THEN Divide(Frames(p), SampleRate(p))
    ELSE Divide(InfoLength(p)[1], InfoLength(p)[2])

\* ---------------------------------------------------------------- mixer
NoReq == [file |-> None, sleep |-> FALSE, del |-> FALSE, music |-> FALSE]
NoMusic == [by |-> Nobody, file |-> None]
NoKill == [by |-> Nobody, music |-> Nobody, sounds |-> [e \in Engines |-> 0]]

ActiveSounds == sounds["e1"] + sounds["e2"]

\* pygame.mixer.init() cannot open a preset device that is not there
InitFails == ~mixerInit /\ preDevice # None /\ preDevice \notin Range(devices)

\* mutant: an init that opens the preset device again when initialized
MixerInitReopen ==
    mixerInit' = TRUE /\ openDevice' = preDevice

\* pygame.mixer.init(): nothing happens when the mixer is initialized already
MixerInit ==
    IF mixerInit
    THEN UNCHANGED <<mixerInit, openDevice>>
    ELSE mixerInit' = TRUE /\ openDevice' = preDevice

\* mutant: the mixer is not quit
MixerQuitSkipped(e) ==
    UNCHANGED <<mixerInit, openDevice, music, musicPlaying, sounds, preDevice, killed>>

\* mutant: a quit that ends only the caller's own playbacks
MixerQuitOwnOnly(e) ==
    /\ mixerInit' = FALSE
    /\ openDevice' = None
    /\ music' = IF music.by = e THEN NoMusic ELSE music
    /\ musicPlaying' = (musicPlaying /\ music.by # e)
    /\ sounds' = [sounds EXCEPT ![e] = 0]
    /\ preDevice' \in {preDevice, None}
    /\ killed' = IF mixerInit
                 THEN [by |-> e,
                       music |-> IF musicPlaying THEN music.by ELSE Nobody,
                       sounds |-> sounds]
                 ELSE killed

\* pygame.mixer.quit(): closes the device and ends every playback
MixerQuit(e) ==
    /\ mixerInit' = FALSE
    /\ openDevice' = None
    /\ music' = NoMusic
    /\ musicPlaying' = FALSE
    /\ sounds' = [u \in Engines |-> 0]
    /\ preDevice' \in {preDevice, None}
    /\ killed' = IF mixerInit
                 THEN [by |-> e,
                       music |-> IF musicPlaying THEN music.by ELSE Nobody,
                       sounds |-> sounds]
                 ELSE killed

Emit(e, ev) == trace' = [trace EXCEPT ![e] = Append(@, ev)]
Goto(e, l) == pc' = [pc EXCEPT ![e] = l]
Raise(e) == pc' = [pc EXCEPT ![e] = "raised"] /\ Emit(e, "raise")

\* ---------------------------------------------------------------- __init__
ResolveAtInit(name, enumOk) ==
    IF ShouldEnumerate(name, sdlAvailable) /\ enumOk
    THEN FindDevice(devices, name)
    ELSE None

Construct(e, name, enumOk) ==
    /\ pc[e] = "unconstructed"
    /\ device_name' = [device_name EXCEPT ![e] = name]
    /\ IF InitFails
       THEN /\ Goto(e, "ctor_raised")
            /\ UNCHANGED <<target_device, enumerated, mixerInit, openDevice>>
       ELSE /\ Goto(e, "idle")
            /\ enumerated' = [enumerated EXCEPT ![e] =
                                 ShouldEnumerate(name, sdlAvailable) /\ enumOk]
            /\ target_device' = [target_device EXCEPT ![e] = ResolveAtInit(name, enumOk)]
            /\ MixerInit
    /\ UNCHANGED <<devices, sdlAvailable, printed, req, trace, preDevice, music,
                   musicPlaying, sounds, exists, wavHandle, file_length, killed>>

\* ---------------------------------------------------------------- list_devices
ListDevices(e, enumOk) ==
    /\ pc[e] = "idle"
    /\ printed' = IF ~sdlAvailable THEN [kind |-> "unavailable", out |-> <<>>]
                  ELSE IF enumOk THEN [kind |-> "devices", out |-> devices]
                  ELSE [kind |-> "error", out |-> <<>>]
    /\ printed' # printed
    /\ UNCHANGED <<devices, sdlAvailable, engineVars, pc, req,
                   trace, mixerInit, preDevice, openDevice, music, musicPlaying,
                   sounds, exists, wavHandle, file_length, killed>>

\* ---------------------------------------------------------------- play_audio
Call(e, f, sl, dl, mu) ==
    /\ pc[e] = "idle"
    /\ req' = [req EXCEPT ![e] = [file |-> f, sleep |-> sl, del |-> dl, music |-> mu]]
    /\ trace' = [trace EXCEPT ![e] = <<>>]
    /\ Goto(e, "pre_init")
    /\ killed' = NoKill
    /\ UNCHANGED <<devices, sdlAvailable, engineVars, printed, mixerVars,
                   exists, wavHandle, file_length>>

\* mutant: the device is looked up again at every play
PreInitReresolve(e) ==
    /\ pc[e] = "pre_init"
    /\ target_device' = [target_device EXCEPT ![e] =
                           IF Truthy(device_name[e]) /\ sdlAvailable
                           THEN FindDevice(devices, device_name[e]) ELSE None]
    /\ IF Truthy(target_device'[e])
       THEN preDevice' = target_device'[e] /\ Emit(e, "pre_init")
       ELSE UNCHANGED <<preDevice, trace>>
    /\ Goto(e, "init")
    /\ UNCHANGED <<devices, sdlAvailable, device_name, enumerated, printed, req,
                   mixerInit, openDevice, music, musicPlaying, sounds, exists,
                   wavHandle, file_length, killed>>

\* lines 76-77
PreInit(e) ==
    /\ pc[e] = "pre_init"
    /\ IF Truthy(target_device[e])
       THEN preDevice' = target_device[e] /\ Emit(e, "pre_init")
       ELSE UNCHANGED <<preDevice, trace>>
    /\ Goto(e, "init")
    /\ UNCHANGED <<devices, sdlAvailable, engineVars, printed, req, mixerInit,
                   openDevice, music, musicPlaying, sounds, exists, wavHandle, file_length,
                   killed>>

\* mutant: play_audio without its pygame.mixer.init()
InitMixerSkipped(e) ==
    /\ pc[e] = "init"
    /\ Goto(e, "load") /\ Emit(e, "init")
    /\ UNCHANGED <<devices, sdlAvailable, engineVars, printed, req, mixerVars,
                   exists, wavHandle, file_length, killed>>

\* line 79; "opened" records that the init had a mixer to open
InitMixer(e) ==
    /\ pc[e] = "init"
    /\ IF InitFails
       THEN Raise(e) /\ UNCHANGED <<mixerInit, openDevice>>
       ELSE /\ MixerInit /\ Goto(e, "load")
            /\ trace' = [trace EXCEPT ![e] =
                           IF mixerInit THEN Append(@, "init")
                           ELSE Append(Append(@, "init"), "opened")]
    /\ UNCHANGED <<devices, sdlAvailable, engineVars, printed, req, preDevice,
                   music, musicPlaying, sounds, exists, wavHandle, file_length,
                   killed>>

\* mutant: a failed load is reported and the call goes on
LoadFailureSwallowed(e) ==
    /\ pc[e] = "load"
    /\ Goto(e, "play") /\ Emit(e, "load")
    /\ IF mixerInit /\ req[e].file \in exists /\ req[e].music
       THEN music' = [by |-> e, file |-> req[e].file] /\ musicPlaying' = FALSE
       ELSE UNCHANGED <<music, musicPlaying>>
    /\ UNCHANGED <<devices, sdlAvailable, engineVars, printed, req, mixerInit,
                   preDevice, openDevice, sounds, exists, wavHandle, file_length,
                   killed>>

\* mutant: a load that leaves a playing stream alone
LoadKeepsPlaying(e) ==
    /\ pc[e] = "load"
    /\ IF mixerInit /\ req[e].file \in exists
       THEN /\ Goto(e, "play") /\ Emit(e, "load")
            /\ IF req[e].music /\ ~musicPlaying
               THEN music' = [by |-> e, file |-> req[e].file] /\ musicPlaying' = FALSE
               ELSE UNCHANGED <<music, musicPlaying>>
       ELSE Raise(e) /\ UNCHANGED <<music, musicPlaying>>
    /\ UNCHANGED <<devices, sdlAvailable, engineVars, printed, req, mixerInit,
                   preDevice, openDevice, sounds, exists, wavHandle, file_length,
                   killed>>

\* lines 83 and 87: pygame.mixer.music.load / pygame.mixer.Sound; loading a
\* stream ends the stream that was playing
Load(e) ==
    /\ pc[e] = "load"
    /\ IF mixerInit /\ req[e].file \in exists
       THEN /\ Goto(e, "play") /\ Emit(e, "load")
            /\ IF req[e].music
               THEN /\ music' = [by |-> e, file |-> req[e].file]
                    /\ musicPlaying' = FALSE
                    /\ killed' = IF musicPlaying
                                 THEN [NoKill EXCEPT !.by = e, !.music = music.by]
                                 ELSE killed
               ELSE UNCHANGED <<music, musicPlaying, killed>>
       ELSE Raise(e) /\ UNCHANGED <<music, musicPlaying, killed>>
    /\ UNCHANGED <<devices, sdlAvailable, engineVars, printed, req, mixerInit,
                   preDevice, openDevice, sounds, exists, wavHandle, file_length>>

\* mutant: the delete_file test outside the sleep_during_playback block
AfterPlayDedented(r) ==
    IF r.sleep THEN "resolve" ELSE IF r.del THEN "stop" ELSE "done"

\* mutant: the duration computed whether or not the call sleeps
AfterPlayAlwaysResolve(r) == "resolve"

\* line 90: where the call goes once playback has started
AfterPlay(r) == IF r.sleep THEN "resolve" ELSE "done"

\* lines 84 and 88: pygame.mixer.music.play / Sound.play
Play(e) ==
    /\ pc[e] = "play"
    /\ IF ~mixerInit \/ (req[e].music /\ music = NoMusic)
       THEN Raise(e) /\ UNCHANGED <<musicPlaying, sounds>>
       ELSE /\ Goto(e, AfterPlay(req[e])) /\ Emit(e, "play")
            /\ IF req[e].music
               THEN musicPlaying' = TRUE /\ UNCHANGED sounds
               ELSE /\ UNCHANGED musicPlaying
                    /\ sounds' = IF ActiveSounds < MaxChannels
                                 THEN [sounds EXCEPT ![e] = @ + 1]
                                 ELSE sounds
    /\ UNCHANGED <<devices, sdlAvailable, engineVars, printed, req, mixerInit,
                   preDevice, openDevice, music, exists, wavHandle, file_length, killed>>

\* mutant: the unknown-format branch without its return
AfterResolveNoReturn(fmt) ==
    IF fmt = "wav" THEN "wav_close" ELSE "sleep"

\* lines 92-102: where the call goes for each format
AfterResolve(fmt) ==
    IF fmt = "wav" THEN "wav_close"
    ELSE IF fmt = "mp3" THEN "sleep"
    ELSE "done"

\* lines 92-95, 97-99, 100-102
Resolve(e) ==
    /\ pc[e] = "resolve"
    /\ LET fmt == FormatOf(req[e].file)
       IN IF fmt = "unknown"
          THEN /\ Goto(e, AfterResolve(fmt)) /\ Emit(e, "unknown")
               /\ UNCHANGED <<wavHandle, file_length>>
          ELSE IF req[e].file \notin exists
          THEN Raise(e) /\ UNCHANGED <<wavHandle, file_length>>
          ELSE /\ Goto(e, AfterResolve(fmt))
               /\ file_length' = [file_length EXCEPT ![e] = LengthOf(fmt, req[e].file)]
               /\ IF fmt = "wav"
                  THEN wavHandle' = [wavHandle EXCEPT ![e] = req[e].file] /\ Emit(e, "open")
                  ELSE UNCHANGED wavHandle /\ Emit(e, "mp3_info")
    /\ UNCHANGED <<devices, sdlAvailable, engineVars, printed, req, mixerVars,
                   exists, killed>>

\* mutant: the SoundFile is never closed
WavCloseForgotten(e) ==
    /\ pc[e] = "wav_close"
    /\ Goto(e, "sleep") /\ Emit(e, "close")
    /\ UNCHANGED <<devices, sdlAvailable, engineVars, printed, req, mixerVars,
                   exists, wavHandle, file_length, killed>>

\* line 96
WavClose(e) ==
    /\ pc[e] = "wav_close"
    /\ wavHandle' = [wavHandle EXCEPT ![e] = None]
    /\ Goto(e, "sleep") /\ Emit(e, "close")
    /\ UNCHANGED <<devices, sdlAvailable, engineVars, printed, req, mixerVars,
                   exists, file_length, killed>>

\* line 105, entering time.sleep
SleepBegin(e) ==
    /\ pc[e] = "sleep"
    /\ Goto(e, "sleeping") /\ Emit(e, "sleep")
    /\ UNCHANGED <<devices, sdlAvailable, engineVars, printed, req, mixerVars,
                   exists, wavHandle, file_length, killed>>

\* mutant: the cleanup not guarded by delete_file
AfterSleepAlways(r) == "stop"

\* line 108: where the call goes once the sleep is over
AfterSleep(r) == IF r.del THEN "stop" ELSE "done"

\* mutant: a wait that polls the mixer and so ends when the mixer is gone
SleepEndPolling(e) ==
    /\ pc[e] = "sleeping"
    /\ IF mixerInit THEN Goto(e, AfterSleep(req[e])) /\ Emit(e, "wake") ELSE Raise(e)
    /\ UNCHANGED <<devices, sdlAvailable, engineVars, printed, req, mixerVars,
                   exists, wavHandle, file_length, killed>>

\* line 105, time.sleep returns
SleepEnd(e) ==
    /\ pc[e] = "sleeping"
    /\ Goto(e, AfterSleep(req[e])) /\ Emit(e, "wake")
    /\ UNCHANGED <<devices, sdlAvailable, engineVars, printed, req, mixerVars,
                   exists, wavHandle, file_length, killed>>

\* line 111
StopMusic(e) ==
    /\ pc[e] = "stop"
    /\ IF mixerInit
       THEN musicPlaying' = FALSE /\ Goto(e, "quit") /\ Emit(e, "stop")
       ELSE Raise(e) /\ UNCHANGED musicPlaying
    /\ UNCHANGED <<devices, sdlAvailable, engineVars, printed, req, mixerInit,
                   preDevice, openDevice, music, sounds, exists, wavHandle, file_length,
                   killed>>

\* line 112
Quit(e) ==
    /\ pc[e] = "quit"
    /\ MixerQuit(e)
    /\ Goto(e, "remove") /\ Emit(e, "quit")
    /\ UNCHANGED <<devices, sdlAvailable, engineVars, printed, req, exists,
                   wavHandle, file_length>>

\* mutant: PermissionError not caught
RemoveUncaught(e, denied) ==
    /\ pc[e] = "remove"
    /\ IF req[e].file \notin exists
       THEN Raise(e) /\ UNCHANGED exists
       ELSE IF denied
       THEN /\ pc' = [pc EXCEPT ![e] = "raised"]
            /\ trace' = [trace EXCEPT ![e] = Append(Append(@, "remove_denied"), "raise")]
            /\ UNCHANGED exists
       ELSE /\ Goto(e, "done") /\ Emit(e, "remove_ok")
            /\ exists' = exists \ {req[e].file}
    /\ UNCHANGED <<devices, sdlAvailable, engineVars, printed, req, mixerVars,
                   wavHandle, file_length, killed>>

\* lines 114-118: os.remove succeeds, is denied (PermissionError, caught), or
\* finds no file (FileNotFoundError, not caught)
Remove(e, denied) ==
    /\ pc[e] = "remove"
    /\ IF req[e].file \notin exists
       THEN Raise(e) /\ UNCHANGED exists
       ELSE IF denied
       THEN Goto(e, "done") /\ Emit(e, "remove_denied") /\ UNCHANGED exists
       ELSE /\ Goto(e, "done") /\ Emit(e, "remove_ok")
            /\ exists' = exists \ {req[e].file}
    /\ UNCHANGED <<devices, sdlAvailable, engineVars, printed, req, mixerVars,
                   wavHandle, file_length, killed>>

\* the call returns (or its exception reaches the caller); the request is
\* discarded
Return(e) ==
    /\ pc[e] \in {"done", "raised"}
    /\ Goto(e, "idle")
    /\ req' = [req EXCEPT ![e] = NoReq]
    /\ trace' = [trace EXCEPT ![e] = <<>>]
    /\ wavHandle' = [wavHandle EXCEPT ![e] = None]
    /\ file_length' = [file_length EXCEPT ![e] = None]
    /\ killed' = NoKill
    /\ UNCHANGED <<devices, sdlAvailable, engineVars, printed, mixerVars, exists>>

\* ---------------------------------------------------------------- environment
\* the set of attached output devices changes
DevicesChange(l) ==
    /\ l # devices
    /\ devices' = l
    /\ UNCHANGED <<sdlAvailable, engineVars, printed, pc, req, trace, mixerVars,
                   exists, wavHandle, file_length, killed>>

\* the music stream reaches the end of its file
MusicFinish ==
    /\ mixerInit /\ musicPlaying
    /\ musicPlaying' = FALSE
    /\ UNCHANGED <<devices, sdlAvailable, engineVars, printed, pc, req, trace,
                   mixerInit, preDevice, openDevice, music, sounds, exists,
                   wavHandle, file_length, killed>>

\* a Sound channel reaches the end of its sound
SoundFinish(e) ==
    /\ mixerInit /\ sounds[e] > 0
    /\ sounds' = [sounds EXCEPT ![e] = @ - 1]
    /\ UNCHANGED <<devices, sdlAvailable, engineVars, printed, pc, req, trace,
                   mixerInit, preDevice, openDevice, music, musicPlaying, exists,
                   wavHandle, file_length, killed>>

\* ---------------------------------------------------------------- inputs
DevMix == <<"M","i","x">>
DevAux == <<"a","M","I","X">>
DevSpk == <<"S","p","k">>
DeviceUniverse == {DevMix, DevAux, DevSpk}
DeviceLists == UNION {[1..k -> DeviceUniverse] : k \in 0..MaxDevices}
RequestedNames == {None, <<>>, <<"m","i","x">>, <<"M","I","X">>, <<"s","P">>, <<"z">>}

PlayDeviceLists == {<<>>, <<DevSpk, DevMix>>}
PlayNames == {None, <<"m","i","x">>}

FileWav == <<"a",".","w","a","v">>
FileMp3 == <<"b",".","M","P","3">>
FileOgg == <<"c",".","o","g","g">>
Files == {FileWav, FileMp3, FileOgg}

\* paths that try the extension dispatch: letter case, no extension, a dot
\* file, a longer extension, a dot in a directory name
DurationFiles ==
    { <<"a",".","W","a","V">>, <<"b",".","m","P","3">>, <<"w","a","v">>,
      <<".","w","a","v">>, <<"a",".","w","a","v","e">>,
      <<"d",".","w","/","m","p","3">>, <<"a",".","b",".","m","p","3">> }
AllFiles == Files \cup DurationFiles

\* ---------------------------------------------------------------- specifications
InitWith(devs, avail) ==
    /\ devices \in devs
    /\ sdlAvailable \in avail
    /\ device_name = [e \in Engines |-> None]
    /\ target_device = [e \in Engines |-> None]
    /\ enumerated = [e \in Engines |-> FALSE]
    /\ printed = [kind |-> "nothing", out |-> <<>>]
    /\ pc = [e \in Engines |-> "unconstructed"]
    /\ req = [e \in Engines |-> NoReq]
    /\ trace = [e \in Engines |-> <<>>]
    /\ mixerInit = FALSE
    /\ preDevice = None
    /\ openDevice = None
    /\ music = NoMusic
    /\ musicPlaying = FALSE
    /\ sounds = [e \in Engines |-> 0]
    /\ exists = AllFiles
    /\ wavHandle = [e \in Engines |-> None]
    /\ file_length = [e \in Engines |-> None]
    /\ killed = NoKill

\* no other engine's caller is inside a call
Quiet(e) == \A u \in Engines \ {e} : pc[u] \in {"unconstructed", "ctor_raised", "idle"}

Step(e) ==
    \/ PreInit(e)
    \/ InitMixer(e)
    \/ Load(e)
    \/ Play(e)
    \/ Resolve(e)
    \/ WavClose(e)
    \/ SleepBegin(e)
    \/ SleepEnd(e)
    \/ StopMusic(e)
    \/ Quit(e)
    \/ \E denied \in BOOLEAN : Remove(e, denied)
    \/ Return(e)

\* single-threaded use: one call at a time, on either engine
PlayNext(files, oks) ==
    \/ \E e \in Engines :
         /\ Quiet(e)
         /\ \/ \E n \in PlayNames, ok \in oks : Construct(e, n, ok)
            \/ \E f \in files, sl, dl, mu \in BOOLEAN : Call(e, f, sl, dl, mu)
            \/ Step(e)
    \/ MusicFinish
    \/ \E e \in Engines : SoundFinish(e)

Init == InitWith(PlayDeviceLists, {TRUE})

Next == PlayNext(Files, {TRUE})

Spec == Init /\ [][Next]_vars

\* the same on one file, with list_devices, failing enumerations and a
\* changing device list in it
NextLife ==
    \/ PlayNext({FileWav}, BOOLEAN)
    \/ \E l \in PlayDeviceLists : DevicesChange(l)
    \/ \E e \in Engines, ok \in BOOLEAN : Quiet(e) /\ ListDevices(e, ok)

SpecLife == Init /\ [][NextLife]_vars

\* one engine playing the paths that try the extension dispatch
NextDuration ==
    \/ \E ok \in BOOLEAN : Construct("e1", None, ok)
    \/ \E f \in DurationFiles, sl, dl, mu \in BOOLEAN : Call("e1", f, sl, dl, mu)
    \/ Step("e1")
    \/ MusicFinish
    \/ SoundFinish("e1")

SpecDuration == Init /\ [][NextDuration]_vars

\* two threads, one per engine, each calling play_audio in music mode on
\* the same file and waiting
NextConc ==
    \/ \E e \in Engines :
         \/ Construct(e, None, TRUE)
         \/ \E dl \in BOOLEAN : Call(e, FileWav, TRUE, dl, TRUE)
         \/ Step(e)
    \/ MusicFinish

SpecConc == Init /\ [][NextConc]_vars

\* the same with every call deleting its file; a thread that can take a step
\* of its call takes it in the end
NextWait ==
    \E e \in Engines :
        \/ Construct(e, None, TRUE)
        \/ Call(e, FileWav, TRUE, TRUE, TRUE)
        \/ Step(e)

SpecWait ==
    Init /\ [][NextWait]_vars /\ WF_vars(Step("e1")) /\ WF_vars(Step("e2"))

\* device resolution on its own, over richer names and device lists
InitResolve == InitWith(DeviceLists, BOOLEAN)

NextResolve ==
    \/ \E e \in Engines, n \in RequestedNames, ok \in BOOLEAN : Construct(e, n, ok)
    \/ \E e \in Engines, ok \in BOOLEAN : ListDevices(e, ok)

SpecResolve == InitResolve /\ [][NextResolve]_vars

\* ================================================================ properties
Has(t, ev) == \E i \in 1..Len(t) : t[i] = ev
Precedes(t, a, b) == \E i, j \in 1..Len(t) : i < j /\ t[i] = a /\ t[j] = b
Removed(t) == Has(t, "remove_ok") \/ Has(t, "remove_denied")
Constructed(e) == pc[e] \notin {"unconstructed", "ctor_raised"}

\* name occurs in dev at some offset, letter case ignored
CIContains(name, dev) ==
    \E off \in 0..(Len(dev) - Len(name)) :
        \A k \in 1..Len(name) : LowerChar(dev[off + k]) = LowerChar(name[k])

IsFirstMatch(devs, name, t) ==
    IF \E i \in 1..Len(devs) : CIContains(name, devs[i])
    THEN \E i \in 1..Len(devs) :
            /\ t = devs[i]
            /\ CIContains(name, devs[i])
            /\ \A j \in 1..(i-1) : ~CIContains(name, devs[j])
    ELSE t = None

\* C1: a construction with a non-empty requested name that enumerates the
\* output devices leaves as resolved device the first enumerated device whose
\* name contains the requested name, letter case ignored, and None if no
\* device name contains it.
C1_FirstMatch ==
    [][\A e \in Engines :
         (/\ pc[e] = "unconstructed" /\ pc'[e] = "idle"
          /\ Truthy(device_name'[e]) /\ enumerated'[e])
         => IsFirstMatch(devices, device_name'[e], target_device'[e])]_vars

\* two different devices match, the first only when case is ignored, and the
\* first is the one resolved
C1_Witness ==
    \E e \in Engines :
        /\ pc[e] = "idle" /\ enumerated[e]
        /\ Len(devices) = 2 /\ devices[1] # devices[2]
        /\ CIContains(device_name[e], devices[1])
        /\ CIContains(device_name[e], devices[2])
        /\ ~Contains(device_name[e], devices[1])
        /\ target_device[e] = devices[1]

UnsupportedExt(f) == Lower(SplitExt(f)) \notin {ExtWav, ExtMp3}

\* C2: a call with sleep_during_playback on a file whose extension is neither
\* .wav nor .mp3 goes from the duration step straight to its return: it does
\* not sleep, and it changes neither the mixer (the playback it started goes
\* on) nor the files, whatever delete_file is.
C2_UnsupportedReturns ==
    [][\A e \in Engines :
         (/\ pc[e] \in {"resolve", "done"} /\ pc'[e] # pc[e]
          /\ req[e].sleep /\ UnsupportedExt(req[e].file))
         => /\ pc'[e] = (IF pc[e] = "resolve" THEN "done" ELSE "idle")
            /\ UNCHANGED <<mixerVars, exists>>
            /\ ~Has(trace'[e], "sleep") /\ ~Has(trace'[e], "stop")
            /\ ~Has(trace'[e], "quit") /\ ~Removed(trace'[e])]_vars

\* the call is over, delete_file was set, and the music it started still plays
C2_Witness ==
    \E e \in Engines :
        /\ pc[e] = "done" /\ req[e].sleep /\ req[e].del /\ req[e].music
        /\ UnsupportedExt(req[e].file)
        /\ Has(trace[e], "unknown")
        /\ mixerInit /\ musicPlaying /\ music = [by |-> e, file |-> req[e].file]
        /\ req[e].file \in exists

WillCleanUp(r) == r.sleep /\ r.del /\ ~UnsupportedExt(r.file)

\* C3: music.stop, mixer.quit and os.remove are called only in a call with
\* sleep_during_playback and delete_file set whose duration was resolved and
\* whose sleep is over; any other call that returns leaves its file on disk
\* and the mixer initialized.
C3_CleanupOnlyWhenAsked ==
    \A e \in Engines :
        /\ (Has(trace[e], "stop") \/ Has(trace[e], "quit") \/ Removed(trace[e]))
              => WillCleanUp(req[e]) /\ Has(trace[e], "wake")
        /\ (pc[e] = "done" /\ ~WillCleanUp(req[e]))
              => req[e].file \in exists /\ mixerInit

\* a call without sleep_during_playback but with delete_file has returned
C3_Witness ==
    \E e \in Engines :
        /\ pc[e] = "done" /\ ~req[e].sleep /\ req[e].del
        /\ req[e].file \in exists /\ mixerInit

\* C4: when os.remove is about to be called, music.stop and mixer.quit have
\* been called, in that order, the mixer is not initialized and nothing
\* plays, in music mode and in Sound mode alike.
C4_ShutdownBeforeDelete ==
    \A e \in Engines :
        /\ pc[e] = "remove"
              => /\ ~mixerInit /\ music = NoMusic /\ ~musicPlaying
                 /\ ActiveSounds = 0
                 /\ Precedes(trace[e], "stop", "quit")
        /\ Removed(trace[e])
              => /\ Precedes(trace[e], "quit", "remove_ok")
                    \/ Precedes(trace[e], "quit", "remove_denied")

\* a Sound-mode call is about to delete, its own sound cut off by the quit
C4_Witness ==
    \E e \in Engines :
        /\ pc[e] = "remove" /\ ~req[e].music
        /\ killed.by = e /\ killed.sounds[e] > 0

\* C5: when os.remove is denied with PermissionError the call still returns
\* normally, with the file on disk and the mixer shut down.
C5_DeniedDeleteIsCaught ==
    \A e \in Engines :
        Has(trace[e], "remove_denied")
           => pc[e] = "done" /\ req[e].file \in exists /\ ~mixerInit

C5_Witness ==
    \E e \in Engines :
        /\ pc[e] = "done" /\ Has(trace[e], "remove_denied")
        /\ req[e].file \in exists

\* C6: when an engine with a resolved device is about to start playback, the
\* mixer has been preset with that device and is open on that device.
C6_PlaysOnResolvedDevice ==
    \A e \in Engines :
        (pc[e] = "play" /\ Truthy(target_device[e]))
           => preDevice = target_device[e] /\ mixerInit
              /\ openDevice = target_device[e]

\* C7: once an engine is constructed no step changes its resolved device:
\* no play, no cleanup, no list_devices, no change of the device list.
C7_ResolvedOnce ==
    [][\A e \in Engines :
         Constructed(e) => target_device'[e] = target_device[e]]_vars

\* a play is over and devices were listed on an engine whose resolved device
\* is no longer what a lookup in the present device list would give
C7_Witness ==
    \E e \in Engines :
        /\ pc[e] = "done" /\ Has(trace[e], "play")
        /\ Truthy(device_name[e]) /\ enumerated[e]
        /\ printed.kind = "devices"
        /\ ~IsFirstMatch(devices, device_name[e], target_device[e])

Phase(ev) ==
    CASE ev \in {"pre_init", "init", "opened"} -> 1
      [] ev \in {"load", "play"} -> 2
      [] ev \in {"unknown", "open", "close", "mp3_info", "sleep", "wake"} -> 3
      [] ev \in {"stop", "quit", "remove_ok", "remove_denied"} -> 4
      [] OTHER -> 5

\* C8: the library calls of one play_audio call come phase by phase,
\* initializing, playing, waiting, cleanup, never going back and none made
\* twice: playback starts after the init, the sleep begins after playback
\* has started, and stop, quit and remove come after the sleep is over.
C8_PhaseOrder ==
    \A e \in Engines :
        LET t == trace[e] IN
        /\ \A i, j \in 1..Len(t) : i < j => Phase(t[i]) <= Phase(t[j]) /\ t[i] # t[j]
        /\ (Has(t, "load") \/ Has(t, "play")) => Precedes(t, "init", "load")
        /\ Has(t, "play") => Precedes(t, "load", "play")
        /\ \A ev \in {"unknown", "open", "mp3_info", "sleep"} :
              Has(t, ev) => Precedes(t, "play", ev)
        /\ Has(t, "wake") => Precedes(t, "sleep", "wake")
        /\ \A ev \in {"stop", "quit", "remove_ok", "remove_denied"} :
              Has(t, ev) => Precedes(t, "wake", ev)
        /\ pc[e] \in {"unconstructed", "ctor_raised", "idle", "pre_init"} => t = <<>>

\* a call that went through every phase
C8_Witness ==
    \E e \in Engines :
        /\ pc[e] = "done"
        /\ trace[e] = <<"pre_init", "init", "load", "play", "open", "close",
                        "sleep", "wake", "stop", "quit", "remove_ok">>

\* C9: the quit of one call's cleanup ends every playback of the process,
\* whoever started it.
C9_QuitEndsEveryPlayback ==
    [][\A e \in Engines :
         (pc[e] = "quit" /\ pc'[e] = "remove")
            => /\ ~mixerInit' /\ music' = NoMusic /\ ~musicPlaying'
               /\ \A u \in Engines : sounds'[u] = 0]_vars

\* the quit of one engine's cleanup cut off a sound of the other engine that
\* had not finished
C9_Witness ==
    \E a, b \in Engines :
        /\ a # b /\ killed.by = a /\ killed.sounds[b] > 0
        /\ pc[a] = "remove" /\ sounds[b] = 0 /\ ~mixerInit

\* C10 as stated: in a call that waits on a .wav file the resolver's handle
\* has been opened and closed by the time the mixer loads the file.
C10_ResolverClosedBeforePlayback ==
    \A e \in Engines :
        (req[e].sleep /\ Lower(SplitExt(req[e].file)) = ExtWav /\ Has(trace[e], "load"))
           => Precedes(trace[e], "close", "load")

\* C10: the resolver's handle is open only in a call that waits on a .wav
\* file, only after the mixer has loaded and started that file (which in
\* music mode the mixer still holds), and only before the sleep begins.
C10_ResolverOpensAfterPlayback ==
    \A e \in Engines :
        wavHandle[e] # None
           => /\ wavHandle[e] = req[e].file
              /\ req[e].sleep /\ Lower(SplitExt(req[e].file)) = ExtWav
              /\ Precedes(trace[e], "load", "play")
              /\ Precedes(trace[e], "play", "open")
              /\ ~Has(trace[e], "sleep")
              /\ req[e].music => music.file = wavHandle[e]

\* the resolver and the music stream hold the same file at once
C10_Witness ==
    \E e \in Engines :
        /\ wavHandle[e] # None /\ req[e].music
        /\ musicPlaying /\ music.file = wavHandle[e]

\* C11: while a call sleeps, and from there to the end of its cleanup, no
\* SoundFile handle is open on its file: the handle opened for a .wav file
\* is closed before the duration step is left.
C11_NoHandleWhileWaiting ==
    \A e \in Engines :
        pc[e] \in {"sleep", "sleeping", "stop", "quit", "remove"}
           => /\ wavHandle[e] = None
              /\ \A u \in Engines : wavHandle[u] # req[e].file
              /\ Has(trace[e], "open") => Precedes(trace[e], "open", "close")

\* a call on a .wav file is about to delete it, its handle opened and closed
C11_Witness ==
    \E e \in Engines :
        /\ pc[e] = "remove" /\ Lower(SplitExt(req[e].file)) = ExtWav
        /\ Precedes(trace[e], "open", "close") /\ Has(trace[e], "wake")
        /\ wavHandle[e] = None

\* p ends in the extension x, letter case ignored: x is the end of p and
\* the last path component has a character other than a dot before it
HasExtCI(p, x) ==
    LET k == Len(p) - Len(x) IN
    /\ k >= 1
    /\ \A i \in 1..Len(x) : LowerChar(p[k + i]) = x[i]
    /\ \E j \in 1..k : p[j] \notin {".", "/"} /\ \A m \in j..Len(p) : p[m] # "/"

SameFraction(q, n, d) == q # None /\ q[1] * d = n * q[2]

\* C12: a call that waits takes its duration by the extension of the path,
\* letter case ignored: frames / samplerate for .wav, the length of the MP3
\* header for .mp3, and for any other extension, or none, it reports the
\* unknown type and never has a duration or sleeps.
C12_DispatchByExtension ==
    \A e \in Engines :
        LET f == req[e].file IN
        pc[e] \in {"wav_close", "sleep", "sleeping", "stop", "quit", "remove", "done"}
        /\ req[e].sleep
        => /\ HasExtCI(f, ExtWav)
                => /\ SameFraction(file_length[e], Frames(f), SampleRate(f))
                   /\ Has(trace[e], "open") /\ ~Has(trace[e], "unknown")
           /\ HasExtCI(f, ExtMp3)
                => /\ SameFraction(file_length[e], InfoLength(f)[1], InfoLength(f)[2])
                   /\ Has(trace[e], "mp3_info") /\ ~Has(trace[e], "unknown")
           /\ ~HasExtCI(f, ExtWav) /\ ~HasExtCI(f, ExtMp3)
                => /\ file_length[e] = None /\ pc[e] = "done"
                   /\ Has(trace[e], "unknown") /\ ~Has(trace[e], "sleep")

\* a call sleeps for the length of a file whose extension is .WaV
C12_Witness ==
    \E e \in Engines :
        /\ pc[e] = "sleeping" /\ HasExtCI(req[e].file, ExtWav)
        /\ SplitExt(req[e].file) # ExtWav
        /\ SameFraction(file_length[e], Frames(req[e].file), SampleRate(req[e].file))

NoMatch(devs, name) == \A i \in 1..Len(devs) : ~CIContains(name, devs[i])

C14_InitIdempotent ==
    [][\A e \in Engines :
         (/\ mixerInit
          /\ \/ pc[e] = "init" /\ pc'[e] # "init"
             \/ pc[e] = "unconstructed" /\ pc'[e] # "unconstructed")
         => /\ pc'[e] = (IF pc[e] = "init" THEN "load" ELSE "idle")
            /\ mixerInit'
            /\ UNCHANGED <<openDevice, music, musicPlaying, sounds>>]_vars

\* a call has initialized again while the other engine's sound was playing,
\* with another device preset; the sound still plays
C14_Witness ==
    \E e, u \in Engines :
        /\ e # u /\ pc[e] = "load" /\ Has(trace[e], "pre_init")
        /\ preDevice # openDevice
        /\ mixerInit /\ sounds[u] > 0

\* C15: the music stream a call has loaded is the only stream there is:
\* whatever stream was playing, of either engine, ended at the load, and
\* from the play on the stream that plays is this call's.
C15_OneStream ==
    \A e \in Engines :
        (req[e].music /\ Has(trace[e], "load") /\ ~Has(trace[e], "quit"))
           => /\ music = [by |-> e, file |-> req[e].file]
              /\ (pc[e] = "play" => ~musicPlaying)

\* a call's stream plays, and its load ended a stream the other engine had
\* started
C15_Witness ==
    \E e, u \in Engines :
        /\ e # u /\ req[e].music /\ Has(trace[e], "play")
        /\ killed.by = e /\ killed.music = u
        /\ musicPlaying /\ music.by = e

AfterStart == {"unknown", "open", "close", "mp3_info", "sleep", "wake", "stop",
               "quit", "remove_ok", "remove_denied"}

\* C16: when the file cannot be loaded (it is not there) or the playback
\* cannot be started, the step raises, the exception reaches the caller as
\* the next and only step, and neither step changes the mixer or the files:
\* no second load, no duration, no sleep, no stop, quit or remove.
C16_StartFailurePropagates ==
    [][\A e \in Engines :
         /\ (/\ pc'[e] # pc[e]
             /\ \/ pc[e] = "load" /\ (req[e].file \notin exists \/ ~mixerInit)
                \/ pc[e] = "play" /\ ~mixerInit)
            => /\ pc'[e] = "raised"
               /\ UNCHANGED <<mixerVars, exists, wavHandle, file_length>>
         /\ (pc[e] = "raised" /\ pc'[e] # pc[e] /\ ~Has(trace[e], "play"))
            => /\ pc'[e] = "idle"
               /\ UNCHANGED <<mixerVars, exists>>
               /\ \A ev \in AfterStart : ~Has(trace[e], ev)]_vars

\* the load of a file that is gone has raised in a call that asked to wait
\* and delete; the mixer is still initialized
C16_Witness ==
    \E e \in Engines :
        /\ pc[e] = "raised" /\ req[e].file \notin exists
        /\ req[e].sleep /\ req[e].del
        /\ Has(trace[e], "init") /\ ~Has(trace[e], "load")
        /\ mixerInit

\* C18: with one call at a time, on whichever engine, the mixer is
\* initialized whenever a call is about to load or start its file, and
\* stays so until that call's own quit.
C18_StartsInitialized ==
    \A e \in Engines :
        /\ pc[e] \in {"load", "play"} => mixerInit /\ Has(trace[e], "init")
        /\ (Has(trace[e], "load") /\ ~Has(trace[e], "quit")) => mixerInit

\* a call is about to start its file on a mixer that it had to open again,
\* after an earlier call's cleanup deleted a file
C18_Witness ==
    \E e \in Engines :
        /\ pc[e] = "play" /\ Has(trace[e], "opened") /\ mixerInit
        /\ exists # AllFiles

Ended(e) == pc[e] \in {"done", "raised"}

\* C17 as stated: a call that has begun its wait ends normally, its wait
\* over and, with delete_file, its cleanup made.
C17_WaitThenCleanup ==
    \A e \in Engines :
        (Ended(e) /\ Has(trace[e], "sleep"))
           => /\ pc[e] = "done" /\ Has(trace[e], "wake")
              /\ req[e].del => Has(trace[e], "stop") /\ Has(trace[e], "quit")
                               /\ Removed(trace[e])

\* C17: a sleep is left only by its own end, from where the call goes to its
\* cleanup with delete_file and to its return without, whatever the other
\* thread did to the mixer meanwhile; and every call in progress ends, by
\* returning or by raising, and gives control back to its caller.
C17_WaitCompletes ==
    /\ [][\A e \in Engines :
            (pc[e] = "sleeping" /\ pc'[e] # "sleeping")
               => /\ pc'[e] = (IF req[e].del THEN "stop" ELSE "done")
                  /\ trace'[e] = Append(trace[e], "wake")]_vars
    /\ \A e \in Engines :
          (pc[e] \notin {"unconstructed", "ctor_raised", "idle"}) ~> (pc[e] = "idle")

\* a call sleeps on while the other thread's cleanup has quit the mixer
C17_Witness ==
    \E e, u \in Engines :
        /\ e # u /\ pc[e] = "sleeping" /\ req[e].del
        /\ ~mixerInit /\ killed.by = u

\* C19: with two threads a call can come to load or start its file on a
\* mixer that is not initialized; the load or start then raises and the
\* mixer stays uninitialized.
C19_StartOnUninitialized ==
    [][\A e \in Engines :
         (pc[e] \in {"load", "play"} /\ ~mixerInit /\ pc'[e] # pc[e])
            => /\ pc'[e] = "raised"
               /\ ~mixerInit'
               /\ UNCHANGED <<music, musicPlaying, sounds>>]_vars

\* a call that did its init is about to load after the other thread's
\* cleanup quit the mixer
C19_Witness ==
    \E e, u \in Engines :
        /\ e # u /\ pc[e] \in {"load", "play"} /\ Has(trace[e], "init")
        /\ ~mixerInit /\ killed.by = u /\ pc[u] \in {"remove", "done"}

\* C20: an engine constructed with the empty string as its name has not
\* enumerated the devices and has no resolved device.
C20_EmptyNameIsNoName ==
    \A e \in Engines :
        (Constructed(e) /\ device_name[e] = <<>>)
           => ~enumerated[e] /\ target_device[e] = None

\* such an engine, where enumeration was available and the first device's
\* name contains the empty string
C20_Witness ==
    \E e \in Engines :
        /\ pc[e] = "idle" /\ device_name[e] = <<>> /\ sdlAvailable
        /\ Len(devices) > 0 /\ Contains(Lower(<<>>), Lower(devices[1]))
        /\ target_device[e] = None
====
